---- MODULE Spec2Model ----
(***************************************************************************)
(* Model of the resumable audio fetcher (src/download_audio.py): the       *)
(* AudioDownloader object, its checkpoint ("todos", persisted in           *)
(* download_progress.json), the partition directory split_words/ and the   *)
(* audio directory audio_downloads/.  One process runs at a time; it can   *)
(* be killed at any point and started again.  The two book scripts that    *)
(* prepare the partitions (src/book/extract_unique_words.py and            *)
(* src/book/split_words.py) are modelled after the fetcher.                *)
(***************************************************************************)
EXTENDS Integers, Sequences, FiniteSets, TLC

(***************************************************************************)
(* Bounds of the model.                                                    *)
(***************************************************************************)
MaxFiles == 2        \* partition files words_001.json .. words_00N.json
LongLen == 11        \* number of entries of the long partition contents
MaxNum == 2          \* largest --num / longest --files list given to a run
MaxFaults == 2       \* faults over a behaviour: hard kills of the process, failing
                     \* responses of the remote service, failing reads of a partition

(***************************************************************************)
(* Program constants.                                                      *)
(***************************************************************************)
SaveEvery == 10      \* "if i % 10 == 0" in process_file
MinBody == 1000      \* "len(response.content) > 1000" in download_audio

FileNames == 1..MaxFiles          \* n stands for words_{n:03d}.json
UnknownName == MaxFiles + 1       \* a name given with --files that is in no record
None == 0                         \* get_next_pending_file's "no file"

Letters == <<"a", "b", "c", "d", "e", "f", "g", "h", "i", "j", "k", "l", "m",
             "n", "o", "p", "q", "r", "s", "t", "u", "v", "w", "x", "y", "z">>

(***************************************************************************)
(* Partition contents: JSON arrays of word objects.  A headWord is a       *)
(* sequence of characters; an entry may lack the headWord key.             *)
(***************************************************************************)
Entry(hw, rank) == [headWord |-> hw, wordRank |-> rank]
NoHeadWord(rank) == [wordRank |-> rank]

Phrase(k) == Entry(<<"x", "-", "y">>, k)

\* dense contents: a plain word at every index (a phrase at the save index)
LongPlain == [k \in 1..LongLen |-> Entry(<<Letters[k]>>, k)]
LongPhrase ==
    [k \in 1..LongLen |-> IF k = SaveEvery THEN Phrase(k) ELSE Entry(<<Letters[k]>>, k)]

\* sparse contents, as long: a plain word at index 1 and from the save index on,
\* a phrase at index 2 and entries without a head word between
Sparse(tenth) ==
    [k \in 1..LongLen |->
        IF k = 1 THEN Entry(<<Letters[k]>>, k)
        ELSE IF k = 2 THEN Phrase(k)
        ELSE IF k < SaveEvery THEN (IF k % 2 = 0 THEN Entry(<<>>, k) ELSE NoHeadWord(k))
        ELSE IF k = SaveEvery THEN tenth
        ELSE Entry(<<Letters[k]>>, k)]
SparsePlain == Sparse(Entry(<<Letters[SaveEvery]>>, SaveEvery))
SparsePhrase == Sparse(Phrase(SaveEvery))

ShortMixed ==
    << Entry(<<" ", "a">>, 1), Entry(<<"a", "-", "b">>, 2), Entry(<<" ">>, 3),
       Entry(<<"c", " ", "d">>, 4), Entry(<<"z">>, 5) >>

ShortPlain == << Entry(<<"z">>, 1), Entry(<<"a">>, 2) >>

\* a directory is the sequence of the contents of words_001.json, words_002.json, ...
\* short partitions, up to MaxFiles of them, mixed and plain ones in turn
ShortPartition(k) == IF k % 2 = 1 THEN ShortMixed ELSE ShortPlain
Directories == {[k \in 1..n |-> ShortPartition(k)] : n \in 1..MaxFiles}

\* a partition with a head word that holds a '/'
SlashPartition == << Entry(<<"a", "/", "c">>, 1), Entry(<<"z">>, 2) >>

\* a sparse content with a head word of whitespace only at index 3
SparseBlank == [SparsePlain EXCEPT ![3] = Entry(<<" ">>, 3)]

\* one long partition, alone or after a short one
LongDirectories ==
    {<<SparsePlain>>, <<SparsePhrase>>, <<ShortPlain, SparsePlain>>,
     <<ShortPlain, SparsePhrase>>}

\* one long partition with a plain word at every index
DenseDirectories == {<<LongPlain>>, <<LongPhrase>>}

(***************************************************************************)
(* Responses of the remote service to one GET: a raised exception          *)
(* (timeout, connection failure) or the final status (success, one of the  *)
(* 3xx that requests does not follow, a client error), a content-type      *)
(* header (type and subtype; <<>> when the header is absent) and a body    *)
(* length.                                                                 *)
(***************************************************************************)
Responses ==
    {[exception |-> TRUE, status |-> 0, ctype |-> <<>>, len |-> 0]} \cup
    [exception : {FALSE}, status : {200, 304, 404},
     ctype : {<<"audio", "mpeg">>, <<"text", "html">>, <<>>},
     len : {MinBody, MinBody + 1}]

VARIABLES
    split_words,    \* the partition directory: the content of each file
    audio_dir,      \* the audio directory: set of audio file names <<word, "uk"|"us">>
    todo_file,      \* the checkpoint file: <<>> when absent, <<todos>> otherwise
    todos,          \* self.todos of the running process
    pc,             \* where the process is; "off" when no process runs
    args,           \* run()'s arguments: [byname, num_files]; with --files the names
                    \* are drawn one per iteration and num_files counts those left
    processed,      \* run()'s loop counter (files handled so far in this run)
    filename,       \* process_file's argument
    words_data,     \* process_file: the partition content read
    i,              \* process_file: enumerate index, from 1
    counts,         \* process_file: [success, fail, skipped] counts
    dl,             \* process_file: [success_uk, msg_uk, success_us, msg_us]
    reqs,           \* history: the network requests issued by the last step
    hist,           \* history of the current process_file call
    budget,         \* the number of faults left of MaxFaults
    json_files,     \* the deduplicator's directory: the lines of each *.json file
    unique_words_json,  \* unique_words.json: <<>> when absent, <<array>> otherwise
    file_index      \* split_unique_words: the loop index, from 0

\* the state of the two book scripts (src/book)
book == <<json_files, unique_words_json, file_index>>

vars == <<split_words, audio_dir, todo_file, todos, pc, args, processed, filename,
          words_data, i, counts, dl, reqs, hist, budget, json_files,
          unique_words_json, file_index>>


(***************************************************************************)
(* Pure helpers of the fetcher.                                            *)
(***************************************************************************)
\* str.strip(): drop leading and trailing whitespace
RECURSIVE LStrip(_)
LStrip(w) == IF w # <<>> /\ Head(w) = " " THEN LStrip(Tail(w)) ELSE w

RECURSIVE RStrip(_)
RStrip(w) ==
    IF w # <<>> /\ w[Len(w)] = " " THEN RStrip(SubSeq(w, 1, Len(w) - 1)) ELSE w

Strip_none(w) == w

Strip(w) == RStrip(LStrip(w))

\* word_obj.get('headWord', '').strip()
HeadWordOf(word_obj) ==
    Strip(IF "headWord" \in DOMAIN word_obj THEN word_obj.headWord ELSE <<>>)

is_phrase_space_only(word) == \E k \in DOMAIN word : word[k] = " "

\* ' ' in word or '-' in word
is_phrase(word) == \E k \in DOMAIN word : word[k] = " " \/ word[k] = "-"

TypeName(audio_type) == IF audio_type = 1 THEN "uk" ELSE "us"

\* f"{word}_{type_name}.mp3" under audio_dir
AudioFile(word, audio_type) == <<word, TypeName(audio_type)>>

DefaultStats ==
    [total_files |-> 0, completed_files |-> 0, total_words |-> 0,
     downloaded_audios |-> 0, failed_downloads |-> 0, skipped_phrases |-> 0]

StatKeys == DOMAIN DefaultStats

FileInfo(name, n) ==
    [filename |-> name, word_count |-> n, status |-> "pending",
     completed_words |-> 0, failed_words |-> 0, last_updated |-> "None"]

\* sorted([f for f in os.listdir(split_words_dir) if f.endswith('.json')])
SplitFiles(dir) == [k \in 1..Len(dir) |-> k]

AddStat(t, key, n) == [t EXCEPT !.statistics[key] = @ + n]

RECURSIVE ScanInto(_, _, _, _)
ScanInto(t, dir, readable, k) ==
    IF k > Len(SplitFiles(dir)) THEN t
    ELSE LET name == SplitFiles(dir)[k]
             t2 == IF name \in readable
                   THEN AddStat([t EXCEPT !.files =
                                    Append(@, FileInfo(name, Len(dir[name])))],
                                "total_words", Len(dir[name]))
                   ELSE t
         IN ScanInto(t2, dir, readable, k + 1)

\* readable: the files that open and parse during this scan
create_initial_todos(dir, readable) ==
    LET t == ScanInto([files |-> <<>>, completed_files |-> <<>>,
                       statistics |-> DefaultStats], dir, readable, 1)
    IN [t EXCEPT !.statistics.total_files = Len(t.files)]

Backfill_reset(stats, key) == DefaultStats[key]

\* if key not in self.todos["statistics"]: self.todos["statistics"][key] = default_value
Backfill(stats, key) == IF key \in DOMAIN stats THEN stats[key] ELSE DefaultStats[key]

\* backfill of the statistics keys an older checkpoint lacks (of the whole statistics
\* when it lacks them all)
ensure_statistics_fields(t) ==
    LET stats == IF "statistics" \in DOMAIN t THEN t.statistics ELSE <<>>
    IN [f \in DOMAIN t \cup {"statistics"} |->
           IF f = "statistics"
           THEN [key \in StatKeys \cup DOMAIN stats |-> Backfill(stats, key)]
           ELSE t[f]]

FileNamesOf(t) == {t.files[k].filename : k \in DOMAIN t.files}

IsNew_always(name, existing_files) == TRUE

\* if filename not in existing_files
IsNew(name, existing_files) == name \notin existing_files

RECURSIVE RescanInto(_, _, _, _, _)
RescanInto(t, dir, readable, existing_files, k) ==
    IF k > Len(SplitFiles(dir)) THEN t
    ELSE LET name == SplitFiles(dir)[k]
             t2 == IF IsNew(name, existing_files) /\ name \in readable
                   THEN AddStat(AddStat([t EXCEPT !.files =
                                    Append(@, FileInfo(name, Len(dir[name])))],
                                "total_words", Len(dir[name])),
                                "total_files", 1)
                   ELSE t
         IN RescanInto(t2, dir, readable, existing_files, k + 1)

\* rescan_files: the checkpoint after the rescan (saved when a file was added)
rescan_files(t, dir, readable) == RescanInto(t, dir, readable, FileNamesOf(t), 1)

Eligible_pending_only(status) == status = "pending"

\* file_info["status"] in ["pending", "failed"]
Eligible(status) == status \in {"pending", "failed"}

RECURSIVE NextPendingFrom(_, _)
NextPendingFrom(files, k) ==
    IF k > Len(files) THEN None
    ELSE IF Eligible(files[k].status) THEN files[k].filename
    ELSE NextPendingFrom(files, k + 1)

get_next_pending_file(t) == NextPendingFrom(t.files, 1)

\* process_file's search of the record: index of the first record named name, 0 if none
RECURSIVE FindFrom(_, _, _)
FindFrom(files, name, k) ==
    IF k > Len(files) THEN 0
    ELSE IF files[k].filename = name THEN k
    ELSE FindFrom(files, name, k + 1)

FindFileInfo(t, name) == FindFrom(t.files, name, 1)

AlreadyCompleted_never(file_info) == FALSE

\* if file_info["status"] == "completed": return True
AlreadyCompleted(file_info) == file_info.status = "completed"

(***************************************************************************)
(* download_audio(word, audio_type) against the audio directory `audio`    *)
(* when the service would answer `resp`: success flag and message, the     *)
(* audio directory afterwards, and whether a GET was issued.               *)
(***************************************************************************)
ValidAudio(resp) ==
    \/ (resp.ctype # <<>> /\ Head(resp.ctype) = "audio")
    \/ resp.len > MinBody

\* open(filepath, 'wb') of f"{word}_{type_name}.mp3": a '/' in the word makes the path
\* one into a directory that does not exist, and open raises
Writable(word) == \A k \in DOMAIN word : word[k] # "/"

RequestFails(resp) == resp.exception \/ resp.status >= 400

ResponseFails(resp) == RequestFails(resp) \/ ~ValidAudio(resp)

FileExists_never(audio, word, audio_type) == FALSE

\* os.path.exists(filepath)
FileExists(audio, word, audio_type) == AudioFile(word, audio_type) \in audio

Result(ok, msg, audio, get, word, audio_type) ==
    [ok |-> ok, msg |-> msg, audio |-> audio, get |-> get, word |-> word,
     type |-> audio_type]

download_audio(word, audio_type, audio, resp) ==
    IF is_phrase(word)
    THEN Result(FALSE, "phrase_skipped", audio, FALSE, word, audio_type)
    ELSE IF FileExists(audio, word, audio_type)
    THEN Result(TRUE, "exists", audio, FALSE, word, audio_type)
    ELSE IF RequestFails(resp)
    THEN Result(FALSE, "network_error", audio, TRUE, word, audio_type)
    ELSE IF ValidAudio(resp)
    THEN IF Writable(word)
         THEN Result(TRUE, "downloaded", audio \cup {AudioFile(word, audio_type)}, TRUE,
                     word, audio_type)
         ELSE Result(FALSE, "unknown_error", audio, TRUE, word, audio_type)
    ELSE Result(FALSE, "invalid_audio", audio, TRUE, word, audio_type)


(***************************************************************************)
(* State of a process that is not running, and the initial state.          *)
(***************************************************************************)
NoTodos == [files |-> <<>>, completed_files |-> <<>>, statistics |-> DefaultStats]
NoArgs == [byname |-> FALSE, num_files |-> 0]
NoCounts == [success |-> 0, fail |-> 0, skipped |-> 0]
NoDl == [success_uk |-> FALSE, msg_uk |-> "", success_us |-> FALSE, msg_us |-> ""]
NoHist == [call |-> "none", file |-> None, seq |-> 0, nexists |-> 0, nfailed |-> 0]

InitIn(directories) ==
    /\ split_words \in directories
    /\ audio_dir = {}
    /\ todo_file = <<>>
    /\ todos = NoTodos
    /\ pc = "off"
    /\ args = NoArgs
    /\ processed = 0
    /\ filename = None
    /\ words_data = <<>>
    /\ i = 0
    /\ counts = NoCounts
    /\ dl = NoDl
    /\ reqs = {}
    /\ hist = NoHist
    /\ budget = MaxFaults
    /\ json_files = <<>>
    /\ unique_words_json = <<>>
    /\ file_index = 0

Init == InitIn(Directories)

\* the process is gone: nothing of its memory is left
ProcessGone ==
    /\ pc' = "off"
    /\ todos' = NoTodos
    /\ args' = NoArgs
    /\ processed' = 0
    /\ filename' = None
    /\ words_data' = <<>>
    /\ i' = 0
    /\ counts' = NoCounts
    /\ dl' = NoDl
    /\ hist' = NoHist

\* json.dump(self.todos, f) over the checkpoint file
save_todos(t) == todo_file' = <<t>>

(***************************************************************************)
(* AudioDownloader.__init__: load_or_create_todos.                         *)
(***************************************************************************)
Start ==
    /\ UNCHANGED book
    /\ pc = "off"
    /\ \E readable \in SUBSET DOMAIN split_words :
          LET t == IF todo_file # <<>>
                   THEN ensure_statistics_fields(todo_file[1])
                   ELSE create_initial_todos(split_words, readable)
          IN /\ todos' = t
             /\ save_todos(t)
    /\ pc' = "ready"
    /\ reqs' = {}
    /\ UNCHANGED <<split_words, audio_dir, args, processed, filename, words_data, i,
                   counts, dl, hist, budget>>

\* the checkpoint after "if rescan: self.rescan_files()", in memory and on disk
AfterRescan(rescan, readable) ==
    LET t == IF rescan THEN rescan_files(todos, split_words, readable) ELSE todos
    IN /\ todos' = t
       /\ IF Len(t.files) > Len(todos.files)
          THEN save_todos(t)
          ELSE UNCHANGED todo_file

(***************************************************************************)
(* main() with --status or --brief: optional rescan, show_status, exit.    *)
(***************************************************************************)
MainStatus ==
    /\ UNCHANGED book
    /\ pc = "ready"
    /\ \E rescan \in BOOLEAN, readable \in SUBSET DOMAIN split_words :
          LET t == IF rescan THEN rescan_files(todos, split_words, readable) ELSE todos
          IN IF Len(t.files) > Len(todos.files)
             THEN save_todos(t)
             ELSE UNCHANGED todo_file
    /\ ProcessGone
    /\ reqs' = {}
    /\ UNCHANGED <<split_words, audio_dir, budget>>

(***************************************************************************)
(* run(target_files, num_files, rescan) up to its loop.                    *)
(***************************************************************************)
\* the names --files can give: those of the directory and one of no file
TargetNames == FileNames \cup {UnknownName}

Run ==
    /\ UNCHANGED book
    /\ pc = "ready"
    /\ \E rescan \in BOOLEAN, readable \in SUBSET DOMAIN split_words :
          AfterRescan(rescan, readable)
    /\ \E byname \in BOOLEAN, n \in 1..MaxNum :
          args' = [byname |-> byname, num_files |-> n]
    /\ processed' = 0
    /\ pc' = "loop"
    /\ reqs' = {}
    /\ UNCHANGED <<split_words, audio_dir, filename, words_data, i, counts, dl, hist,
                   budget>>


(***************************************************************************)
(* run()'s loop and process_file.                                          *)
(***************************************************************************)
Stamp == "strftime"

SetFile(t, k, field, value) == [t EXCEPT !.files[k][field] = value]

\* control is back in run()'s loop after process_file(name) returned
\* (process_file's locals are dead from here on)
Returned(byname) ==
    /\ pc' = "loop"
    /\ processed' = IF byname THEN processed ELSE processed + 1
    /\ filename' = None
    /\ words_data' = <<>>
    /\ i' = 0
    /\ counts' = NoCounts

\* process_file(name) up to its word loop (lines 155-195)
\* readok: whether open and json.load of the partition file succeed this time
process_file_begin(name, readok) ==
    LET k == FindFileInfo(todos, name)
        called(what) == [call |-> what, file |-> name, seq |-> hist.seq + 1,
                         nexists |-> 0, nfailed |-> 0]
    IN IF k = 0
       THEN /\ hist' = called("notfound")
            /\ Returned(args.byname)
            /\ UNCHANGED <<todos, todo_file>>
       ELSE IF AlreadyCompleted(todos.files[k])
       THEN /\ hist' = called("already")
            /\ Returned(args.byname)
            /\ UNCHANGED <<todos, todo_file>>
       ELSE IF ~readok
       THEN /\ todos' = SetFile(todos, k, "status", "failed")
            /\ save_todos(todos')
            /\ hist' = called("readfail")
            /\ Returned(args.byname)
       ELSE /\ todos' = SetFile(SetFile(todos, k, "status", "processing"),
                                k, "last_updated", Stamp)
            /\ filename' = name
            /\ words_data' = split_words[name]
            /\ i' = 1
            /\ counts' = NoCounts
            /\ hist' = called("running")
            /\ pc' = "uk"
            /\ UNCHANGED <<todo_file, processed>>

\* the read of process_file(name) fails only while the budget of failing reads lasts
ReadOutcome(name, readok) ==
    LET k == FindFileInfo(todos, name)
        reads == k # 0 /\ ~AlreadyCompleted(todos.files[k])
    IN /\ ~readok => reads /\ budget > 0
       /\ budget' = IF ~readok THEN budget - 1 ELSE budget

\* for filename in target_files: a name in no record is reported and skipped
RunSkipUnknown ==
    /\ UNCHANGED book
    /\ pc = "loop"
    /\ args.byname
    /\ args.num_files > 0
    /\ \E name \in TargetNames : name \notin FileNamesOf(todos)
    /\ args' = [args EXCEPT !.num_files = @ - 1]
    /\ reqs' = {}
    /\ UNCHANGED <<split_words, audio_dir, todo_file, todos, pc, processed, filename,
                   words_data, i, counts, dl, hist, budget>>

\* for filename in target_files: self.process_file(filename)
RunNamed ==
    /\ UNCHANGED book
    /\ pc = "loop"
    /\ args.byname
    /\ args.num_files > 0
    /\ \E name \in TargetNames, readok \in BOOLEAN :
          /\ name \in FileNamesOf(todos)
          /\ ReadOutcome(name, readok)
          /\ process_file_begin(name, readok)
    /\ args' = [args EXCEPT !.num_files = @ - 1]
    /\ reqs' = {}
    /\ UNCHANGED <<split_words, audio_dir, dl>>

\* while processed < num_files: self.process_file(self.get_next_pending_file())
RunNextPending ==
    /\ UNCHANGED book
    /\ pc = "loop"
    /\ ~args.byname
    /\ processed < args.num_files
    /\ get_next_pending_file(todos) # None
    /\ \E readok \in BOOLEAN :
          /\ ReadOutcome(get_next_pending_file(todos), readok)
          /\ process_file_begin(get_next_pending_file(todos), readok)
    /\ reqs' = {}
    /\ UNCHANGED <<split_words, audio_dir, args, dl>>

\* the loop is over: show_status and normal termination
RunExit ==
    /\ UNCHANGED book
    /\ pc = "loop"
    /\ IF args.byname
       THEN args.num_files = 0
       ELSE processed >= args.num_files \/ get_next_pending_file(todos) = None
    /\ ProcessGone
    /\ reqs' = {}
    /\ UNCHANGED <<split_words, audio_dir, todo_file, budget>>

\* one call of download_audio in the word loop; the service's answer is any response,
\* a failing one while the behaviour's budget of failures lasts
Download(r, resp) ==
    /\ r.get /\ ResponseFails(resp) => budget > 0
    /\ audio_dir' = r.audio
    /\ reqs' = IF r.get THEN {AudioFile(r.word, r.type)} ELSE {}
    /\ budget' = IF r.get /\ ResponseFails(resp) THEN budget - 1 ELSE budget

\* lines 197-214: the head of an iteration (empty word, phrase) and the type 1 download
WordUK ==
    /\ UNCHANGED book
    /\ pc = "uk"
    /\ i <= Len(words_data)
    /\ LET word == HeadWordOf(words_data[i])
       IN IF word = <<>>
          THEN /\ i' = i + 1
               /\ reqs' = {}
               /\ UNCHANGED <<audio_dir, todos, pc, counts, dl, budget>>
          ELSE IF is_phrase(word)
          THEN /\ counts' = [counts EXCEPT !.skipped = @ + 1]
               /\ todos' = AddStat(todos, "skipped_phrases", 1)
               /\ i' = i + 1
               /\ reqs' = {}
               /\ UNCHANGED <<audio_dir, pc, dl, budget>>
          ELSE /\ \E resp \in Responses :
                     LET r == download_audio(word, 1, audio_dir, resp)
                     IN /\ Download(r, resp)
                        /\ dl' = [dl EXCEPT !.success_uk = r.ok, !.msg_uk = r.msg]
               /\ pc' = "us"
               /\ UNCHANGED <<todos, i, counts>>
    /\ UNCHANGED <<split_words, todo_file, args, processed, filename, words_data, hist>>

IsSuccessMsg(msg) == msg \in {"exists", "downloaded"}

\* lines 216-218: the type 2 download
WordUS ==
    /\ UNCHANGED book
    /\ pc = "us"
    /\ LET word == HeadWordOf(words_data[i])
       IN \E resp \in Responses :
           LET r == download_audio(word, 2, audio_dir, resp)
           IN
             /\ Download(r, resp)
             /\ dl' = [dl EXCEPT !.success_us = r.ok, !.msg_us = r.msg]
             /\ hist' = [hist EXCEPT
                   !.nexists = @ + (IF dl.msg_uk = "exists" THEN 1 ELSE 0)
                                 + (IF r.msg = "exists" THEN 1 ELSE 0),
                   !.nfailed = @ + (IF IsSuccessMsg(dl.msg_uk) /\ IsSuccessMsg(r.msg)
                                    THEN 0 ELSE 1)]
    /\ pc' = "tally"
    /\ UNCHANGED <<split_words, todo_file, todos, args, processed, filename,
                   words_data, i, counts>>

WordSucceeded_either(d) == d.success_uk \/ d.success_us

\* if success_uk and success_us
WordSucceeded(d) == d.success_uk /\ d.success_us

SaveDue_never(n) == FALSE

\* if i % 10 == 0
SaveDue(n) == n % SaveEvery = 0

\* lines 220-233: count the word; every 10th index, store the counts and save
WordTally ==
    /\ UNCHANGED book
    /\ pc = "tally"
    /\ LET k == FindFileInfo(todos, filename)
           c == IF WordSucceeded(dl)
                THEN [counts EXCEPT !.success = @ + 1]
                ELSE [counts EXCEPT !.fail = @ + 1]
           t == IF WordSucceeded(dl)
                THEN AddStat(todos, "downloaded_audios", 2)
                ELSE AddStat(todos, "failed_downloads", 1)
       IN /\ counts' = c
          /\ IF SaveDue(i)
             THEN /\ todos' = SetFile(SetFile(t, k, "completed_words", c.success),
                                      k, "failed_words", c.fail)
                  /\ save_todos(todos')
             ELSE /\ todos' = t
                  /\ UNCHANGED todo_file
    /\ i' = i + 1
    /\ dl' = NoDl
    /\ pc' = "uk"
    /\ reqs' = {}
    /\ UNCHANGED <<split_words, audio_dir, args, processed, filename, words_data,
                   hist, budget>>

FinishedStatus_failed_on_errors(fail_count) ==
    IF fail_count > 0 THEN "failed" ELSE "completed"

\* file_info["status"] = "completed", whatever the counts
FinishedStatus(fail_count) == "completed"

InSeq(x, seq) == \E n \in DOMAIN seq : seq[n] = x

\* lines 235-253: the file is completed
FinishFile ==
    /\ UNCHANGED book
    /\ pc = "uk"
    /\ i > Len(words_data)
    /\ LET k == FindFileInfo(todos, filename)
           t1 == SetFile(SetFile(SetFile(SetFile(todos,
                    k, "completed_words", counts.success),
                    k, "failed_words", counts.fail),
                    k, "status", FinishedStatus(counts.fail)),
                    k, "last_updated", Stamp)
           t2 == IF ~InSeq(filename, t1.completed_files)
                 THEN AddStat([t1 EXCEPT !.completed_files = Append(@, filename)],
                              "completed_files", 1)
                 ELSE t1
       IN /\ todos' = t2
          /\ save_todos(t2)
    /\ hist' = [hist EXCEPT !.call = "done", !.nexists = 0, !.nfailed = 0]
    /\ Returned(args.byname)
    /\ reqs' = {}
    /\ UNCHANGED <<split_words, audio_dir, args, dl, budget>>

(***************************************************************************)
(* The environment: a hard kill of the process.  (The other inputs of the  *)
(* environment are drawn where the code meets them: the files that can be  *)
(* read during a scan, the outcome of process_file's read, the service's   *)
(* response to a GET.)                                                     *)
(***************************************************************************)
Kill ==
    /\ UNCHANGED book
    /\ pc # "off"
    /\ budget > 0
    /\ budget' = budget - 1
    /\ ProcessGone
    /\ reqs' = {}
    /\ UNCHANGED <<split_words, audio_dir, todo_file>>

Next ==
    \/ Start
    \/ MainStatus
    \/ Run
    \/ RunSkipUnknown
    \/ RunNamed
    \/ RunNextPending
    \/ RunExit
    \/ WordUK
    \/ WordUS
    \/ WordTally
    \/ FinishFile
    \/ Kill

Spec == Init /\ [][Next]_vars

\* the same program over one long partition
InitLong == InitIn(LongDirectories)

SpecLong == InitLong /\ [][Next]_vars

\* the same program over a partition with a '/' in a head word
InitSlash == InitIn({<<SlashPartition>>})

SpecSlash == InitSlash /\ [][Next]_vars

\* the same program over a long partition with a head word of whitespace only
InitBlank == InitIn({<<SparseBlank>>})

SpecBlank == InitBlank /\ [][Next]_vars

\* the same program over one long partition with a plain word at every index
InitDense == InitIn(DenseDirectories)

(***************************************************************************)
(* Checkpoints written by an older version: the statistics hold only some  *)
(* of the keys, or the checkpoint has no statistics at all.                *)
(***************************************************************************)
OldStats ==
    [total_files |-> 2, completed_files |-> 1, total_words |-> 4,
     downloaded_audios |-> 4, failed_downloads |-> 1, skipped_phrases |-> 3]

OldFiles ==
    << [FileInfo(1, Len(ShortPlain)) EXCEPT !.status = "completed",
                                            !.completed_words = 2,
                                            !.last_updated = Stamp],
       FileInfo(2, Len(ShortPlain)) >>

OldCheckpoints ==
    {[files |-> OldFiles, completed_files |-> <<1>>]}
    \cup {[files |-> OldFiles, completed_files |-> <<1>>,
           statistics |-> [key \in keys |-> OldStats[key]]] : keys \in SUBSET StatKeys}

InitOld ==
    /\ split_words = <<ShortPlain, ShortPlain>>
    /\ todo_file \in {<<t>> : t \in OldCheckpoints}
    /\ audio_dir = {}
    /\ todos = NoTodos
    /\ pc = "off"
    /\ args = NoArgs
    /\ processed = 0
    /\ filename = None
    /\ words_data = <<>>
    /\ i = 0
    /\ counts = NoCounts
    /\ dl = NoDl
    /\ reqs = {}
    /\ hist = NoHist
    /\ budget = MaxFaults
    /\ json_files = <<>>
    /\ unique_words_json = <<>>
    /\ file_index = 0

\* the same program started on the checkpoint of an older version
SpecOld == InitOld /\ [][Next]_vars

SpecDense == InitDense /\ [][Next]_vars

(***************************************************************************)
(* The environment changes a partition file: its content is replaced       *)
(* (counted among the faults).  That a file is removed shows as the file   *)
(* not being among the readable ones of a scan and as a failing read.      *)
(***************************************************************************)
Replace ==
    /\ UNCHANGED book
    /\ budget > 0
    /\ \E f \in DOMAIN split_words, c \in {ShortMixed, ShortPlain} :
          /\ c # split_words[f]
          /\ split_words' = [split_words EXCEPT ![f] = c]
    /\ budget' = budget - 1
    /\ reqs' = {}
    /\ UNCHANGED <<audio_dir, todo_file, todos, pc, args, processed, filename,
                   words_data, i, counts, dl, hist>>

NextChanging ==
    \/ Next
    \/ Replace

\* the same program over partition files that change
SpecChanging == Init /\ [][NextChanging]_vars

(***************************************************************************)
(* save_todos fails: open() of the checkpoint file raises (the file or its *)
(* directory cannot be written; the file is left as it was).  save_todos   *)
(* has no handler, and neither have its callers process_file, run and      *)
(* main: the exception ends the process.  hist keeps that the process      *)
(* ended by a failed write.                                                *)
(***************************************************************************)
WriteFailed == [NoHist EXCEPT !.call = "writefail"]

\* the exception raised by save_todos leaves process_file, run and main
Uncaught ==
    /\ UNCHANGED book
    /\ budget > 0
    /\ budget' = budget - 1
    /\ pc' = "off"
    /\ todos' = NoTodos
    /\ args' = NoArgs
    /\ processed' = 0
    /\ filename' = None
    /\ words_data' = <<>>
    /\ i' = 0
    /\ counts' = NoCounts
    /\ dl' = NoDl
    /\ hist' = WriteFailed
    /\ reqs' = {}
    /\ UNCHANGED <<split_words, audio_dir, todo_file>>

\* lines 230-233 when the save of the 10th index fails
WordTallySaveFails ==
    /\ pc = "tally"
    /\ SaveDue(i)
    /\ Uncaught

\* lines 235-246 when the save of the completed file fails
FinishFileSaveFails ==
    /\ pc = "uk"
    /\ i > Len(words_data)
    /\ Uncaught

NextWriteFail ==
    \/ Next
    \/ WordTallySaveFails
    \/ FinishFileSaveFails

\* the same program over one long partition and a checkpoint file whose writes can fail
SpecWriteFail == InitLong /\ [][NextWriteFail]_vars

(***************************************************************************)
(* State functions used by the properties.                                 *)
(***************************************************************************)
InWordLoop == pc \in {"uk", "us", "tally"}

\* the record of file f in checkpoint t has status st
HasStatus(t, f, st) == \E k \in DOMAIN t.files : t.files[k].filename = f /\ t.files[k].status = st

OnDisk(f, st) == todo_file # <<>> /\ HasStatus(todo_file[1], f, st)

\* completed_words of f's record in the checkpoint file (0 when there is none)
DiskCompletedWords(f) ==
    IF todo_file # <<>> /\ f \in FileNamesOf(todo_file[1])
    THEN todo_file[1].files[FindFileInfo(todo_file[1], f)].completed_words
    ELSE 0

\* the head word as stored in the JSON object, '' when the key is absent
RawHeadWord(word_obj) ==
    IF "headWord" \in DOMAIN word_obj THEN word_obj.headWord ELSE <<>>

HasSpaceOrHyphen(w) == \E k \in DOMAIN w : w[k] \in {" ", "-"}

\* a hyphen anywhere, or a space with a non-space character on both sides of it
HasInnerSpaceOrHyphen(w) ==
    \/ \E k \in DOMAIN w : w[k] = "-"
    \/ \E a, k, b \in DOMAIN w : a < k /\ k < b /\ w[a] # " " /\ w[k] = " " /\ w[b] # " "

\* this step is one pass of WordUK over the entry at index i
HeadStep == pc = "uk" /\ i <= Len(words_data) /\ pc' \in {"uk", "us"}

\* this step is a call of process_file
CallStep == pc = "loop" /\ hist'.seq = hist.seq + 1

Stat(t, key) == t.statistics[key]

PhraseEffect ==
    /\ reqs' = {}
    /\ audio_dir' = audio_dir
    /\ Stat(todos', "skipped_phrases") = Stat(todos, "skipped_phrases") + 1
    /\ Stat(todos', "downloaded_audios") = Stat(todos, "downloaded_audios")
    /\ Stat(todos', "failed_downloads") = Stat(todos, "failed_downloads")

\* the plain (non-empty, non-phrase) words of a partition content
PlainIndexes(words) ==
    {k \in DOMAIN words : HeadWordOf(words[k]) # <<>> /\ ~is_phrase(HeadWordOf(words[k]))}

AllAudioPresent(words) ==
    \A k \in PlainIndexes(words), t \in {1, 2} :
        AudioFile(HeadWordOf(words[k]), t) \in audio_dir

(***************************************************************************)
(* C2 (as stated): every change of a record's status is pending ->         *)
(* processing, failed -> processing, processing -> completed or            *)
(* processing -> failed.                                                   *)
(***************************************************************************)
StatusChanges(allowed) ==
    pc # "off" /\ pc' # "off" =>
        \A k \in DOMAIN todos.files :
            todos'.files[k].status # todos.files[k].status =>
                <<todos.files[k].status, todos'.files[k].status>> \in allowed

SpecTransitions ==
    {<<"pending", "processing">>, <<"failed", "processing">>,
     <<"processing", "completed">>, <<"processing", "failed">>}

C2_TransitionsAsStated == [][StatusChanges(SpecTransitions)]_vars

(***************************************************************************)
(* C2 (amended): every change of a record's status made by a running       *)
(* process is one of the four above or pending -> failed, and a record     *)
(* becomes failed only in a process_file call whose read of the partition  *)
(* file failed.                                                            *)
(***************************************************************************)
C2_Transitions ==
    [][/\ StatusChanges(SpecTransitions \cup {<<"pending", "failed">>})
       /\ pc # "off" /\ pc' # "off" =>
            \A k \in DOMAIN todos.files :
                (todos'.files[k].status = "failed" /\ todos.files[k].status # "failed")
                    => (CallStep /\ hist'.call = "readfail"
                        /\ hist'.file = todos.files[k].filename)]_vars

C2_Witness ==
    /\ pc = "loop"
    /\ hist.call = "readfail"
    /\ HasStatus(todos, hist.file, "failed")
    /\ OnDisk(hist.file, "failed")

(***************************************************************************)
(* C3: while a file is processed, at most SaveEvery - 1 words counted as   *)
(* downloaded in this run are missing from the record in the checkpoint    *)
(* file.                                                                   *)
(***************************************************************************)
C3_BoundedLoss ==
    InWordLoop => counts.success - DiskCompletedWords(filename) <= SaveEvery - 1

(***************************************************************************)
(* C4 (as stated): an entry whose headWord contains a space or a hyphen    *)
(* gets no request and no audio file, and adds one to skipped_phrases and  *)
(* nothing to downloaded_audios and failed_downloads.                      *)
(***************************************************************************)
C4_PhraseAsStated ==
    [][HeadStep /\ HasSpaceOrHyphen(RawHeadWord(words_data[i])) => PhraseEffect]_vars

(***************************************************************************)
(* C4 (amended): the same for an entry whose headWord contains a hyphen,   *)
(* or a space that is neither leading nor trailing.                        *)
(***************************************************************************)
C4_Phrase ==
    [][HeadStep /\ HasInnerSpaceOrHyphen(RawHeadWord(words_data[i])) => PhraseEffect]_vars

C4_Witness ==
    /\ pc = "uk"
    /\ i > 1
    /\ HasInnerSpaceOrHyphen(RawHeadWord(words_data[i - 1]))
    /\ counts.skipped > 0
    /\ Stat(todos, "skipped_phrases") > 0

(***************************************************************************)
(* C5: for a non-phrase word the type 2 download follows the type 1        *)
(* download whatever its outcome (a GET is issued when the type 2 file is  *)
(* absent), and the word adds 2 to downloaded_audios iff both variants     *)
(* succeeded, and 1 to failed_downloads otherwise.                         *)
(***************************************************************************)
C5_BothVariants ==
    [][/\ (HeadStep /\ PlainIndexes(words_data) \cap {i} # {}) =>
            /\ pc' = "us"
            /\ dl'.msg_uk \in {"exists", "downloaded", "network_error", "invalid_audio"}
       /\ (pc = "us" /\ pc' # "off") =>
            /\ pc' = "tally"
            /\ dl'.msg_us \in {"exists", "downloaded", "network_error", "invalid_audio"}
            /\ AudioFile(HeadWordOf(words_data[i]), 2) \notin audio_dir
                  => reqs' = {AudioFile(HeadWordOf(words_data[i]), 2)}
       /\ (pc = "tally" /\ pc' # "off") =>
            IF IsSuccessMsg(dl.msg_uk) /\ IsSuccessMsg(dl.msg_us)
            THEN /\ Stat(todos', "downloaded_audios") = Stat(todos, "downloaded_audios") + 2
                 /\ Stat(todos', "failed_downloads") = Stat(todos, "failed_downloads")
                 /\ counts'.success = counts.success + 1
                 /\ counts'.fail = counts.fail
            ELSE /\ Stat(todos', "downloaded_audios") = Stat(todos, "downloaded_audios")
                 /\ Stat(todos', "failed_downloads") = Stat(todos, "failed_downloads") + 1
                 /\ counts'.success = counts.success
                 /\ counts'.fail = counts.fail + 1]_vars

\* the first variant failed, the second was fetched all the same
C5_Witness ==
    /\ pc = "tally"
    /\ ~dl.success_uk
    /\ dl.msg_us = "downloaded"
    /\ reqs = {AudioFile(HeadWordOf(words_data[i]), 2)}

(***************************************************************************)
(* C6: once the partition file is read, no step of process_file makes the  *)
(* record failed, the call ends with the record completed, and its         *)
(* failed_words is the number of words of this run with a failed variant.  *)
(***************************************************************************)
C6_WordFailuresKeepFile ==
    [][(InWordLoop /\ pc' # "off") =>
         /\ ~HasStatus(todos', filename, "failed")
         /\ pc' = "loop" =>
              /\ hist'.call = "done"
              /\ HasStatus(todos', filename, "completed")
              /\ todo_file' = <<todos'>>
              /\ todos'.files[FindFileInfo(todos', filename)].failed_words = hist.nfailed]_vars

C6_Witness ==
    /\ pc = "loop"
    /\ hist.call = "done"
    /\ HasStatus(todos, hist.file, "completed")
    /\ todos.files[FindFileInfo(todos, hist.file)].failed_words > 0

(***************************************************************************)
(* C7: no audio file is ever removed, and no step requests from the        *)
(* network a variant whose audio file exists; so a variant once persisted  *)
(* is never requested again, across kills and restarts.                    *)
(***************************************************************************)
C7_NoRepeatedRequest ==
    [][audio_dir \subseteq audio_dir' /\ reqs' \cap audio_dir = {}]_vars

\* after a restart (the only record is being processed a second time), a word whose
\* type 1 file exists is passed without a request
C7_Witness ==
    /\ pc = "us"
    /\ Len(todos.files) = 1
    /\ dl.msg_uk = "exists"
    /\ reqs = {}
    /\ AudioFile(HeadWordOf(words_data[i]), 1) \in audio_dir

(***************************************************************************)
(* C8 (as stated): a process_file call on a completed partition whose      *)
(* audio files are all present reports "already exists" for every variant. *)
(***************************************************************************)
C8_IdempotenceAsStated ==
    (pc = "loop" /\ hist.call = "already" /\ AllAudioPresent(split_words[hist.file]))
        => hist.nexists = 2 * Cardinality(PlainIndexes(split_words[hist.file]))

(***************************************************************************)
(* C8 (amended): a process_file call on a record that is completed returns *)
(* at once: it calls download_audio for no variant (no report, no          *)
(* request), and leaves the checkpoint (downloaded_audios, the status      *)
(* completed), the checkpoint file and the audio directory unchanged.      *)
(***************************************************************************)
C8_Idempotence ==
    [][CallStep =>
         /\ HasStatus(todos, hist'.file, "completed") => hist'.call = "already"
         /\ hist'.call = "already" =>
              /\ HasStatus(todos, hist'.file, "completed")
              /\ pc' = "loop"
              /\ hist'.nexists = 0
              /\ reqs' = {}
              /\ todos' = todos
              /\ todo_file' = todo_file
              /\ audio_dir' = audio_dir]_vars

C8_Witness ==
    /\ pc = "loop"
    /\ hist.call = "already"
    /\ PlainIndexes(split_words[hist.file]) # {}
    /\ AllAudioPresent(split_words[hist.file])
    /\ HasStatus(todos, hist.file, "completed")

(***************************************************************************)
(* C9: get_next_pending_file returns the name of the first record, in list *)
(* order, that is pending or failed, and None exactly when there is none.  *)
(***************************************************************************)
EligibleIndexes(t) == {k \in DOMAIN t.files : t.files[k].status \in {"pending", "failed"}}

FirstEligible(t) ==
    IF EligibleIndexes(t) = {} THEN None
    ELSE t.files[CHOOSE k \in EligibleIndexes(t) :
                    \A m \in EligibleIndexes(t) : k <= m].filename

C9_SelectionPolicy ==
    /\ get_next_pending_file(todos) = FirstEligible(todos)
    /\ todo_file # <<>> => get_next_pending_file(todo_file[1]) = FirstEligible(todo_file[1])
    /\ \A k \in DOMAIN todos.files : todos.files[k].filename # None

C9_Witness ==
    /\ Len(todos.files) >= 2
    /\ todos.files[1].status \in {"processing", "completed"}
    /\ todos.files[2].status = "failed"
    /\ get_next_pending_file(todos) = todos.files[2].filename

(***************************************************************************)
(* C10: in a run over the next pending files, after a file could not be    *)
(* read and was marked failed, the next call of process_file is for        *)
(* another file, when a later record is pending.                           *)
(***************************************************************************)
LaterPending(t, f) ==
    \E k \in DOMAIN t.files :
        /\ k > FindFileInfo(t, f)
        /\ t.files[k].status = "pending"

C10_ContinuePastFailed ==
    [][(CallStep /\ ~args.byname /\ hist.call = "readfail" /\ LaterPending(todos, hist.file))
          => hist'.file # hist.file]_vars


(***************************************************************************)
(* Fairness for the claims about what eventually happens: a process that   *)
(* is not killed goes on, the operator starts the fetcher again whenever   *)
(* it has ended, and again and again runs it over the next pending files.  *)
(* (Kills and failing reads are bounded by the budget of faults.)          *)
(***************************************************************************)
Program ==
    \/ Start
    \/ MainStatus
    \/ Run
    \/ RunSkipUnknown
    \/ RunNamed
    \/ RunNextPending
    \/ RunExit
    \/ WordUK
    \/ WordUS
    \/ WordTally
    \/ FinishFile

RunOverNextPending == Run /\ ~args'.byname

FairSpec == SpecLong /\ WF_vars(Program) /\ SF_vars(RunOverNextPending)

(***************************************************************************)
(* C1: whenever process_file is working on a file, the file is eventually  *)
(* completed in the checkpoint file, be the process killed or not, under   *)
(* repeated runs over the next pending files.                              *)
(***************************************************************************)
C1_ResumeCompletes ==
    \A f \in FileNames : (InWordLoop /\ filename = f) ~> OnDisk(f, "completed")

(***************************************************************************)
(* C11: rescan_files appends, at the end of the file list and in directory *)
(* order, one pending record with zero counters for each readable          *)
(* partition file that has no record, adds it to total_files and           *)
(* total_words, and leaves every existing record, their order and the      *)
(* other statistics as they are, also when partition files have changed;   *)
(* the checkpoint file is the checkpoint before or the one after.          *)
(***************************************************************************)
RECURSIVE SumWordCount(_, _)
SumWordCount(files, k) ==
    IF k > Len(files) THEN 0 ELSE files[k].word_count + SumWordCount(files, k + 1)

\* t2 is t after a rescan of dir in which the files of readable could be read
RescanEffect(t, t2, dir, readable) ==
    LET n == Len(t.files)
        added == (n + 1)..Len(t2.files)
    IN /\ Len(t2.files) >= n
       /\ SubSeq(t2.files, 1, n) = t.files
       /\ {t2.files[k].filename : k \in added} = readable \ FileNamesOf(t)
       /\ \A k \in added :
             t2.files[k] = FileInfo(t2.files[k].filename, Len(dir[t2.files[k].filename]))
       /\ \A j, k \in added : j < k => t2.files[j].filename < t2.files[k].filename
       /\ t2.completed_files = t.completed_files
       /\ Stat(t2, "total_files") = Stat(t, "total_files") + Cardinality(added)
       /\ Stat(t2, "total_words") = Stat(t, "total_words") + SumWordCount(t2.files, n + 1)
       /\ \A key \in StatKeys \ {"total_files", "total_words"} : Stat(t2, key) = Stat(t, key)

C11_RescanAppendOnly ==
    [][pc = "ready" =>
         /\ \A readable \in SUBSET DOMAIN split_words :
               RescanEffect(todos, rescan_files(todos, split_words, readable),
                            split_words, readable)
         /\ split_words' = split_words =>
               \E rescan \in BOOLEAN, readable \in SUBSET DOMAIN split_words :
                  LET t == IF rescan THEN rescan_files(todos, split_words, readable)
                           ELSE todos
                  IN /\ pc' = "loop" => todos' = t
                     /\ todo_file' = IF Len(t.files) > Len(todos.files)
                                     THEN <<t>> ELSE todo_file]_vars

\* a file that could not be read when the checkpoint was created is appended after a
\* completed record whose partition file has changed since
C11_Witness ==
    /\ pc = "loop"
    /\ processed = 0
    /\ Len(todos.files) = 2
    /\ todos.files[1].filename = 2
    /\ todos.files[1].status = "completed"
    /\ todos.files[1].word_count # Len(split_words[2])
    /\ todos.files[2] = FileInfo(1, Len(split_words[1]))
    /\ Stat(todos, "total_files") = 2
    /\ todo_file = <<todos>>

(***************************************************************************)
(* C12: when a write of the checkpoint file fails while a file is          *)
(* processed, the process goes on (with the next word, or back in run's    *)
(* loop) and its checkpoint in memory is kept.                             *)
(***************************************************************************)
C12_WriteFailureNotFatal ==
    [][(InWordLoop /\ hist'.call = "writefail") =>
          /\ pc' \in {"uk", "loop"}
          /\ todos'.files # <<>>
          /\ todos'.statistics = todos.statistics]_vars

(***************************************************************************)
(* The book scripts: extract_unique_words (the deduplicator) reads the     *)
(* line-delimited *.json files of its directory and writes                 *)
(* unique_words.json; split_unique_words (the splitter) reads              *)
(* unique_words.json and writes the partitions words_001.json, ... into    *)
(* split_words/.                                                           *)
(***************************************************************************)
words_per_file == 1000     \* "words_per_file = 1000" in split_unique_words

MaxLines == 2              \* lines of a small input file of the deduplicator
BigLen == 1001             \* entries of the large input file

Upper == <<"A", "B", "C", "D", "E", "F", "G", "H", "I", "J", "K", "L", "M",
           "N", "O", "P", "Q", "R", "S", "T", "U", "V", "W", "X", "Y", "Z">>

\* str.lower()
LowerChar(c) ==
    IF \E k \in DOMAIN Upper : Upper[k] = c
    THEN Letters[CHOOSE k \in DOMAIN Upper : Upper[k] = c]
    ELSE c

Lower(w) == [k \in 1..Len(w) |-> LowerChar(w[k])]

\* word objects: the toolkit reads headWord and wordRank and carries the rest along
WordObj(hw, rank, c) == [headWord |-> hw, wordRank |-> rank, content |-> c]
Rankless(hw, c) == [headWord |-> hw, content |-> c]
Headless(rank, c) == [wordRank |-> rank, content |-> c]

\* a line that json.loads rejects, and one it parses to a value that is no dict
MalformedLine == [json |-> "malformed"]
NonDictLine == [json |-> "number"]

Aardvark5 == WordObj(<<"a", "a", "r", "d", "v", "a", "r", "k">>, 5, 1)
Aardvark1 == WordObj(<<"A", "a", "r", "d", "v", "a", "r", "k">>, 1, 2)
Banana2 == WordObj(<<"b", "a", "n", "a", "n", "a">>, 2, 3)
Emu2 == WordObj(<<"e", "m", "u">>, 2, 4)
EmptyHead1 == WordObj(<<>>, 1, 5)
Headless3 == Headless(3, 6)
Cat == Rankless(<<"c", "a", "t">>, 7)
Dog == Rankless(<<"D", "o", "g">>, 8)

\* the lines of the small files
Lines == {Aardvark5, Banana2, EmptyHead1, Headless3, Cat, MalformedLine, NonDictLine}

\* a file that cannot be read adds no word, as a file without lines
SmallFiles == UNION {[1..n -> Lines] : n \in 0..MaxLines}

SecondFiles == {<<Aardvark1, Banana2>>, <<Dog, Cat, Emu2>>}

\* the k-th of the distinct generated head words
Word(k) ==
    <<Letters[((k \div 676) % 26) + 1], Letters[((k \div 26) % 26) + 1],
      Letters[(k % 26) + 1]>>

\* n distinct words, ranked from last to first
BigFile(n) == [k \in 1..n |-> WordObj(Word(k), n + 1 - k, k)]

\* the directories of the deduplicator, in os.listdir order
JsonDirectories ==
    {<<>>, << <<Aardvark5>>, <<Aardvark1>>, <<Banana2>> >>}
    \cup {<<f>> : f \in SmallFiles}
    \cup {<<f, g>> : f \in SmallFiles, g \in SecondFiles}
    \cup {<<BigFile(words_per_file)>>, <<BigFile(BigLen)>>,
          <<BigFile(BigLen), <<WordObj(<<"A", "A", "B">>, 0, 0), Cat>> >>}

\* isinstance(word_obj, dict)
IsDict(word_obj) == "json" \notin DOMAIN word_obj

\* lines 35-43: the lines of a file that parse
ParsedLines(file) == SelectSeq(file, LAMBDA line : line # MalformedLine)

Seen_never(head_word, seen_words) == FALSE

\* head_word in seen_words
Seen(head_word, seen_words) == head_word \in seen_words

KeyLess_descending(a, b) ==
    "wordRank" \in DOMAIN b /\ ("wordRank" \in DOMAIN a => b.wordRank < a.wordRank)

\* lines 50-58 for one word_obj; acc is [seen_words, unique_words], the dict unique_words
\* as the list of its values in insertion order
AddWord(acc, word_obj) ==
    IF ~IsDict(word_obj) THEN acc
    ELSE LET head_word ==
                 Lower(IF "headWord" \in DOMAIN word_obj THEN word_obj.headWord ELSE <<>>)
         IN IF head_word # <<>> /\ ~Seen(head_word, acc.seen_words)
            THEN [seen_words |-> {w \in acc.seen_words \cup {head_word} : TRUE},
                  unique_words |-> Append(acc.unique_words, word_obj)]
            ELSE acc

\* lines 49-60: the loop over data[lo..hi], in order (the first half, then the second)
RECURSIVE AddWords(_, _, _, _)
AddWords(acc, data, lo, hi) ==
    IF lo > hi THEN acc
    ELSE IF lo = hi THEN AddWord(acc, data[lo])
    ELSE LET mid == (lo + hi) \div 2
             first == AddWords(acc, data, lo, mid)
         IN IF Len(first.unique_words) >= 0
            THEN AddWords(first, data, mid + 1, hi)
            ELSE acc

\* lines 26-60: the loop over the files
RECURSIVE AddFiles(_, _, _)
AddFiles(acc, files, k) ==
    IF k > Len(files) THEN acc
    ELSE LET data == ParsedLines(files[k])
         IN AddFiles(AddWords(acc, data, 1, Len(data)), files, k + 1)

HasRank(word_obj) == "wordRank" \in DOMAIN word_obj

\* key(a) < key(b) for key = x.get('wordRank', float('inf'))
KeyLess(a, b) == HasRank(a) /\ (HasRank(b) => a.wordRank < b.wordRank)

\* x put into the sorted list behind the elements whose key is not greater
Insert(sorted, x) ==
    LET k == Cardinality({j \in 1..Len(sorted) : ~KeyLess(x, sorted[j])})
    IN SubSeq(sorted, 1, k) \o <<x>> \o SubSeq(sorted, k + 1, Len(sorted))

\* list[lo..hi] put into the sorted list one after the other, in list order
RECURSIVE InsertAll(_, _, _, _)
InsertAll(sorted, list, lo, hi) ==
    IF lo > hi THEN sorted
    ELSE IF lo = hi THEN Insert(sorted, list[lo])
    ELSE LET mid == (lo + hi) \div 2
             first == InsertAll(sorted, list, lo, mid)
         IN IF Len(first) >= 0
            THEN InsertAll(first, list, mid + 1, hi)
            ELSE sorted

\* list.sort(key=...): ascending and stable
SortByRank(list) == InsertAll(<<>>, list, 1, Len(list))

\* word_obj['wordRank'] = r
SetRank(word_obj, r) ==
    [f \in DOMAIN word_obj \cup {"wordRank"} |-> IF f = "wordRank" THEN r ELSE word_obj[f]]

\* for i, word_obj in enumerate(list, 1): word_obj['wordRank'] = i
Rerank(list) == [k \in 1..Len(list) |-> SetRank(list[k], k)]

\* the array extract_unique_words writes for the directory files
extract_unique_words(files) ==
    Rerank(SortByRank(
        AddFiles([seen_words |-> {}, unique_words |-> <<>>], files, 1).unique_words))

Ceil_floor(n, d) == n \div d

Batch_first(data, index) ==
    [k \in 1..(IF words_per_file < Len(data) THEN words_per_file ELSE Len(data)) |->
        [f \in DOMAIN data[k] \cup {"wordRank"} |->
            IF f = "wordRank" THEN k ELSE data[k][f]]]

\* math.ceil(total_words / words_per_file)
Ceil(n, d) == (n + d - 1) \div d

\* lines 37-45: the batch of index file_index (from 0), with wordRank from 1
Batch(data, index) ==
    LET start_index == index * words_per_file
        end_index == IF (index + 1) * words_per_file < Len(data)
                     THEN (index + 1) * words_per_file ELSE Len(data)
    IN Rerank(SubSeq(data, start_index + 1, end_index))

\* open(output_path, 'w') and json.dump for words_{n:03d}.json in the directory dir
WriteFile(dir, n, content) ==
    IF n <= Len(dir) THEN [dir EXCEPT ![n] = content] ELSE Append(dir, content)

\* what an array of unique_words.json an operator provided can be
GivenArrays == {<<Cat, Aardvark5, Banana2>>}

\* partitions left in split_words/ by an earlier run of the splitter
StaleDirectories == {<<>>, <<ShortPlain, ShortPlain, ShortPlain>>}

InitBook ==
    /\ json_files \in JsonDirectories
    /\ unique_words_json \in {<<>>} \cup {<<a>> : a \in GivenArrays}
    /\ split_words \in StaleDirectories
    /\ file_index = 0
    /\ audio_dir = {}
    /\ todo_file = <<>>
    /\ todos = NoTodos
    /\ pc = "off"
    /\ args = NoArgs
    /\ processed = 0
    /\ filename = None
    /\ words_data = <<>>
    /\ i = 0
    /\ counts = NoCounts
    /\ dl = NoDl
    /\ reqs = {}
    /\ hist = NoHist
    /\ budget = MaxFaults

\* the fetcher does not run while the book scripts do
fetcher == <<audio_dir, todo_file, todos, args, processed, filename, i, counts, dl,
             reqs, hist>>

(***************************************************************************)
(* extract_unique_words(): one run of the deduplicator.                    *)
(***************************************************************************)
ExtractUniqueWords ==
    /\ pc = "off"
    /\ json_files # <<>>
    /\ unique_words_json' = <<extract_unique_words(json_files)>>
    /\ UNCHANGED <<json_files, split_words, file_index, pc, words_data, budget>>
    /\ UNCHANGED fetcher

(***************************************************************************)
(* split_unique_words(): the load, one step for each file written, the     *)
(* verification that reads the files again, and the end of the run.        *)
(***************************************************************************)
SplitLoad ==
    /\ pc = "off"
    /\ unique_words_json # <<>>
    /\ words_data' = unique_words_json[1]
    /\ file_index' = 0
    /\ pc' = "split"
    /\ UNCHANGED <<json_files, unique_words_json, split_words, budget>>
    /\ UNCHANGED fetcher

SplitWrite ==
    /\ pc = "split"
    /\ file_index < Ceil(Len(words_data), words_per_file)
    /\ split_words' = WriteFile(split_words, file_index + 1, Batch(words_data, file_index))
    /\ file_index' = file_index + 1
    /\ UNCHANGED <<json_files, unique_words_json, pc, words_data, budget>>
    /\ UNCHANGED fetcher

\* the write of a partition raises: the run is aborted, the files written so far stay
SplitAborts ==
    /\ pc = "split"
    /\ file_index < Ceil(Len(words_data), words_per_file)
    /\ pc' = "off"
    /\ words_data' = <<>>
    /\ file_index' = 0
    /\ UNCHANGED <<json_files, unique_words_json, split_words, budget>>
    /\ UNCHANGED fetcher

SplitVerify ==
    /\ pc = "split"
    /\ file_index = Ceil(Len(words_data), words_per_file)
    /\ pc' = "split_done"
    /\ UNCHANGED <<json_files, unique_words_json, split_words, file_index, words_data,
                   budget>>
    /\ UNCHANGED fetcher

SplitExit ==
    /\ pc = "split_done"
    /\ pc' = "off"
    /\ words_data' = <<>>
    /\ file_index' = 0
    /\ UNCHANGED <<json_files, unique_words_json, split_words, budget>>
    /\ UNCHANGED fetcher

NextBook ==
    \/ ExtractUniqueWords
    \/ SplitLoad
    \/ SplitWrite
    \/ SplitAborts
    \/ SplitVerify
    \/ SplitExit

BookSpec == InitBook /\ [][NextBook]_vars

(***************************************************************************)
(* State functions used by the properties of the book scripts.             *)
(***************************************************************************)
\* the word objects of the directory, by file order, then line order
RECURSIVE DictLines(_, _)
DictLines(files, k) ==
    IF k > Len(files) THEN <<>>
    ELSE SelectSeq(files[k], LAMBDA line : "json" \notin DOMAIN line)
            \o DictLines(files, k + 1)

\* the lowercased head words of a list of word objects, as a sequence
KeysOf(list) == SubSeq([k \in 1..Len(list) |-> Lower(RawHeadWord(list[k]))], 1, Len(list))

\* the least index at which key occurs in keys
First(keys, key) ==
    LET at == {j \in 1..Len(keys) : keys[j] = key}
    IN CHOOSE j \in at : \A m \in at : j <= m

\* a word object without its wordRank
Rest(word_obj) == [f \in DOMAIN word_obj \ {"wordRank"} |-> word_obj[f]]

\* this step is a run of the deduplicator that writes unique_words.json
DedupStep == unique_words_json' # unique_words_json

\* the original rank of a is smaller than that of b (no rank counts as the greatest)
Before(a, b) ==
    /\ "wordRank" \in DOMAIN a
    /\ "wordRank" \in DOMAIN b => a.wordRank < b.wordRank

(***************************************************************************)
(* C13: the array the deduplicator writes has exactly one entry for each   *)
(* distinct lowercased non-empty headWord of the input files, and it is    *)
(* the first entry with that key by file order, then line order (its       *)
(* fields but wordRank, which is reassigned); entries with an empty or     *)
(* missing headWord are dropped.                                           *)
(***************************************************************************)
FirstOccurrenceKept(in, out) ==
    LET inkeys == KeysOf(in)
        outkeys == KeysOf(out)
    IN /\ Cardinality({outkeys[k] : k \in 1..Len(out)}) = Len(out)
       /\ {outkeys[k] : k \in 1..Len(out)} = {inkeys[k] : k \in 1..Len(in)} \ {<<>>}
       /\ \A k \in 1..Len(out) : Rest(out[k]) = Rest(in[First(inkeys, outkeys[k])])

C13_FirstOccurrence ==
    [][DedupStep => FirstOccurrenceKept(DictLines(json_files, 1), unique_words_json'[1])]_vars

\* Aardvark of the second file is dropped for aardvark of the first, the entry with the
\* empty head word is dropped
C13_Witness ==
    /\ json_files = << <<Aardvark5, EmptyHead1>>, <<Aardvark1, Banana2>> >>
    /\ unique_words_json # <<>>
    /\ Len(unique_words_json[1]) = 2
    /\ Rest(unique_words_json[1][1]) = Rest(Banana2)
    /\ Rest(unique_words_json[1][2]) = Rest(Aardvark5)

(***************************************************************************)
(* C14: the wordRank values of the array the deduplicator writes are 1..N  *)
(* in output order, and the output order is the ascending original rank of *)
(* the retained entries, entries without a rank last, entries of equal     *)
(* rank and entries without rank in first-seen order.                      *)
(***************************************************************************)
RankedInOrder(in, out) ==
    LET inkeys == KeysOf(in)
        outkeys == KeysOf(out)
        src == SubSeq([k \in 1..Len(out) |-> First(inkeys, outkeys[k])], 1, Len(out))
    IN /\ \A k \in 1..Len(out) : "wordRank" \in DOMAIN out[k] /\ out[k].wordRank = k
       /\ \A k \in 1..(Len(out) - 1) :
             /\ ~Before(in[src[k + 1]], in[src[k]])
             /\ ~Before(in[src[k]], in[src[k + 1]]) => src[k] < src[k + 1]

C14_Rerank ==
    [][DedupStep => RankedInOrder(DictLines(json_files, 1), unique_words_json'[1])]_vars

\* {aardvark, 5}, {Aardvark, 1}, {banana, 2} in three files give banana: 1, aardvark: 2
C14_Witness ==
    /\ json_files = << <<Aardvark5>>, <<Aardvark1>>, <<Banana2>> >>
    /\ unique_words_json = << << [Banana2 EXCEPT !.wordRank = 1],
                                 [Aardvark5 EXCEPT !.wordRank = 2] >> >>

(***************************************************************************)
(* C15: a run of the splitter over an array of N entries writes exactly    *)
(* ceil(N / 1000) files words_001 .. words_K, one at a time and no other   *)
(* file; file f holds the entries (f-1)*1000+1 .. min(f*1000, N) of the    *)
(* array in input order, with wordRank 1..len(file); every file but the    *)
(* last has 1000 entries and the sizes sum to N.                           *)
(***************************************************************************)
\* the least number of batches of words_per_file entries that hold n entries
Batches(n) ==
    CHOOSE k \in 0..n : k * words_per_file >= n /\ (k > 0 => (k - 1) * words_per_file < n)

RECURSIVE SumLen(_, _)
SumLen(dir, k) == IF k = 0 THEN 0 ELSE Len(dir[k]) + SumLen(dir, k - 1)

Partitioned ==
    LET n == Len(words_data)
        K == Batches(n)
    IN /\ file_index = K
       /\ Len(split_words) >= K
       /\ \A f \in 1..K :
             LET lo == (f - 1) * words_per_file
                 hi == IF f * words_per_file < n THEN f * words_per_file ELSE n
             IN /\ Len(split_words[f]) = hi - lo
                /\ \A j \in 1..(hi - lo) :
                      /\ Rest(split_words[f][j]) = Rest(words_data[lo + j])
                      /\ split_words[f][j].wordRank = j
       /\ \A f \in 1..(K - 1) : Len(split_words[f]) = words_per_file
       /\ SumLen(split_words, K) = n

\* this step writes the next file of the run and touches no other file
OneFileWritten ==
    /\ pc = "split"
    /\ file_index' = file_index + 1
    /\ file_index' <= Batches(Len(words_data))
    /\ Len(split_words') = (IF file_index' > Len(split_words) THEN file_index'
                            ELSE Len(split_words))
    /\ \A f \in 1..Len(split_words) : f # file_index' => split_words'[f] = split_words[f]

C15_SplitPartition ==
    [][/\ (pc = "split" /\ pc' = "split_done") => Partitioned'
       /\ split_words' # split_words => OneFileWritten]_vars

\* more than one batch: a full file and a last file with the rest
C15_Witness ==
    /\ pc = "split_done"
    /\ Len(words_data) > words_per_file
    /\ file_index = 2
    /\ Len(split_words[1]) = words_per_file
    /\ Len(split_words[2]) = Len(words_data) - words_per_file
    /\ split_words[2][1].wordRank = 1

(***************************************************************************)
(* C16 (as stated): after the splitter ran over the array the deduplicator *)
(* wrote, the concatenation of the partitions written, in file order,      *)
(* equals that array in order and in every field, wordRank included.       *)
(***************************************************************************)
RECURSIVE Concatenation(_, _)
Concatenation(dir, k) == IF k = 0 THEN <<>> ELSE Concatenation(dir, k - 1) \o dir[k]

\* the splitter has run over dedup(json_files)
SplitOfDedup ==
    /\ pc = "split_done"
    /\ json_files # <<>>
    /\ words_data = extract_unique_words(json_files)

C16_RoundTripAsStated ==
    SplitOfDedup => Concatenation(split_words, file_index) = words_data

(***************************************************************************)
(* C16 (amended): the concatenation equals the deduplicator's array in     *)
(* order and in every field but wordRank: the entry at position p has the  *)
(* wordRank ((p - 1) mod 1000) + 1, its position in its partition, so the  *)
(* two are equal exactly when the array has at most 1000 entries.          *)
(***************************************************************************)
C16_RoundTrip ==
    SplitOfDedup =>
        LET cat == Concatenation(split_words, file_index)
        IN /\ Len(cat) = Len(words_data)
           /\ \A p \in 1..Len(cat) :
                 /\ Rest(cat[p]) = Rest(words_data[p])
                 /\ words_data[p].wordRank = p
                 /\ cat[p].wordRank = ((p - 1) % words_per_file) + 1
           /\ (cat = words_data) <=> (Len(words_data) <= words_per_file)

C16_Witness ==
    /\ SplitOfDedup
    /\ Len(words_data) > words_per_file
    /\ words_data[words_per_file + 1].wordRank = words_per_file + 1
    /\ split_words[2][1].wordRank = 1
    /\ Rest(split_words[2][1]) = Rest(words_data[words_per_file + 1])

(***************************************************************************)
(* C17: while process_file works on a file, no step makes the record's     *)
(* completed_words or failed_words smaller, from the values the record     *)
(* holds when the call starts.                                             *)
(***************************************************************************)
RecordOf(t, name) == t.files[FindFileInfo(t, name)]

C17_CountersMonotone ==
    [][(InWordLoop /\ pc' # "off") =>
          /\ RecordOf(todos', filename).completed_words
                >= RecordOf(todos, filename).completed_words
          /\ RecordOf(todos', filename).failed_words
                >= RecordOf(todos, filename).failed_words]_vars

(***************************************************************************)
(* C18: when the audio file of a variant does not exist, download_audio    *)
(* writes the file and reports success if and only if the request raises   *)
(* no exception, the status is a success status (2xx) and the content-type *)
(* begins with "audio" or the body is longer than 1000 bytes; otherwise it *)
(* reports failure and writes no file.                                     *)
(***************************************************************************)
PassesHeuristic(resp) ==
    \/ (Len(resp.ctype) > 0 /\ resp.ctype[1] = "audio")
    \/ resp.len > MinBody

\* the outcome of download_audio(word, audio_type) on the response resp is as good says
OutcomeIs(word, audio_type, resp, good) ==
    LET r == download_audio(word, audio_type, audio_dir, resp)
        file == AudioFile(word, audio_type)
    IN file \notin audio_dir =>
          /\ r.get
          /\ good => r.ok /\ r.audio = audio_dir \cup {file}
          /\ ~good => ~r.ok /\ r.audio = audio_dir

\* this step is download_audio(word, audio_type), for some response of the service
DownloadStep(word, audio_type) ==
    \E resp \in Responses :
        LET r == download_audio(word, audio_type, audio_dir, resp)
        IN /\ audio_dir' = r.audio
           /\ IF audio_type = 1
              THEN dl'.success_uk = r.ok /\ dl'.msg_uk = r.msg
              ELSE dl'.success_us = r.ok /\ dl'.msg_us = r.msg

\* the word whose variant audio_type is downloaded by the next step of the process
Downloading(audio_type) ==
    /\ pc = (IF audio_type = 1 THEN "uk" ELSE "us")
    /\ i \in PlainIndexes(words_data)

VariantOutcome(Good(_, _)) ==
    \A audio_type \in {1, 2} :
        (Downloading(audio_type) /\ pc' # "off") =>
            /\ \A resp \in Responses :
                  OutcomeIs(HeadWordOf(words_data[i]), audio_type, resp,
                            Good(HeadWordOf(words_data[i]), resp))
            /\ DownloadStep(HeadWordOf(words_data[i]), audio_type)

GoodAsStated(word, resp) ==
    ~resp.exception /\ resp.status \in 200..299 /\ PassesHeuristic(resp)

C18_VariantOutcomeAsStated == [][VariantOutcome(GoodAsStated)]_vars

(***************************************************************************)
(* What download_audio does: it writes the file and reports success if and *)
(* only if the request raises no exception, the final status is below 400  *)
(* (raise_for_status raises for 4xx and 5xx only), the payload passes the  *)
(* heuristic and the audio file can be opened for writing (the word holds  *)
(* no '/').                                                                *)
(***************************************************************************)
GoodInCode(word, resp) ==
    /\ ~resp.exception
    /\ resp.status < 400
    /\ PassesHeuristic(resp)
    /\ \A k \in 1..Len(word) : word[k] # "/"

VariantOutcomeInCode == [][VariantOutcome(GoodInCode)]_vars

(***************************************************************************)
(* C19: loading an existing checkpoint sets every statistics key that is   *)
(* absent to 0, leaves every statistics key that is present, the file      *)
(* records and the completed_files list unchanged, and writes the result   *)
(* to the checkpoint file; loading the result again changes nothing.       *)
(***************************************************************************)
\* the statistics of checkpoint t, none when t has no statistics
StatsOf(t) == IF "statistics" \in DOMAIN t THEN t.statistics ELSE <<>>

\* this step loads the existing checkpoint file
LoadStep == pc = "off" /\ pc' = "ready" /\ todo_file # <<>>

C19_Backfill ==
    [][LoadStep =>
         LET old == todo_file[1]
         IN /\ DOMAIN todos'.statistics = StatKeys
            /\ \A key \in StatKeys :
                  todos'.statistics[key] =
                      (IF key \in DOMAIN StatsOf(old) THEN StatsOf(old)[key] ELSE 0)
            /\ todos'.files = old.files
            /\ todos'.completed_files = old.completed_files
            /\ todo_file' = <<todos'>>
            /\ ensure_statistics_fields(todos') = todos'
            /\ DOMAIN StatsOf(old) = StatKeys => todos' = old /\ todo_file' = todo_file]_vars

\* skipped_phrases was absent (it is 3 where present, and never decreases) and is 0
\* now, next to the keys that were present
C19_Witness ==
    /\ pc = "ready"
    /\ Stat(todos, "skipped_phrases") = 0
    /\ Stat(todos, "downloaded_audios") = 4
    /\ Stat(todos, "completed_files") = 1
    /\ todos.files = OldFiles
    /\ todo_file = <<todos>>

(***************************************************************************)
(* C20: from a freshly created checkpoint on, the checkpoint file always   *)
(* has statistics.completed_files = length of the completed_files list =   *)
(* number of records with status completed, the list has no duplicates     *)
(* (it holds the names of the completed records), and a record that is     *)
(* completed in the checkpoint file stays completed.                       *)
(***************************************************************************)
CompletedRecords(t) == {k \in DOMAIN t.files : t.files[k].status = "completed"}

Bookkeeping(t) ==
    /\ Stat(t, "completed_files") = Len(t.completed_files)
    /\ Len(t.completed_files) = Cardinality(CompletedRecords(t))
    /\ \A a, b \in DOMAIN t.completed_files :
          a # b => t.completed_files[a] # t.completed_files[b]
    /\ {t.completed_files[a] : a \in DOMAIN t.completed_files}
          = {t.files[k].filename : k \in CompletedRecords(t)}

C20_CompletionBookkeeping ==
    [][/\ todo_file' # <<>> => Bookkeeping(todo_file'[1])
       /\ \A f \in FileNames :
             OnDisk(f, "completed") =>
                todo_file' # <<>> /\ HasStatus(todo_file'[1], f, "completed")]_vars

\* after a kill and a restart, a completed file was named again and a second file was
\* completed
C20_Witness ==
    /\ pc = "loop"
    /\ budget < MaxFaults
    /\ hist.call = "already"
    /\ todo_file # <<>>
    /\ Len(todo_file[1].completed_files) = 2
    /\ Stat(todo_file[1], "completed_files") = 2

(***************************************************************************)
(* C21: whenever no file is being processed, statistics.downloaded_audios  *)
(* of the running process equals twice the sum of completed_words over the *)
(* file records, and downloaded_audios never exceeds 2 * total_words, in   *)
(* the memory of the process and in the checkpoint file.                   *)
(***************************************************************************)
RECURSIVE SumCompletedWords(_, _)
SumCompletedWords(files, k) ==
    IF k > Len(files) THEN 0
    ELSE files[k].completed_words + SumCompletedWords(files, k + 1)

AudioCounted(t) ==
    Stat(t, "downloaded_audios") = 2 * SumCompletedWords(t.files, 1)

AudioBounded(t) ==
    Stat(t, "downloaded_audios") <= 2 * Stat(t, "total_words")

C21_AudioCounter ==
    /\ pc \in {"ready", "loop"} => AudioCounted(todos)
    /\ pc # "off" => AudioBounded(todos)
    /\ todo_file # <<>> => AudioBounded(todo_file[1])

(***************************************************************************)
(* C22 (as stated): while the content of a partition file is the one that  *)
(* was registered, completed_words + failed_words <= word_count in every   *)
(* record, in memory and in the checkpoint file; and when a call of        *)
(* process_file completes a file, completed_words + failed_words + the     *)
(* phrases skipped by that call + the entries of the file whose headWord   *)
(* is empty (the empty string, or absent) = word_count.                    *)
(***************************************************************************)
CountedWithin(t) ==
    \A k \in DOMAIN t.files :
        t.files[k].completed_words + t.files[k].failed_words <= t.files[k].word_count

\* this step is the end of process_file's word loop: the file is completed
CompletesFile == pc = "uk" /\ i > Len(words_data) /\ pc' = "loop"

EmptyHead(word_obj) == RawHeadWord(word_obj) = <<>>

\* the head word is absent, empty or made of whitespace only
BlankHead(word_obj) ==
    \A k \in DOMAIN RawHeadWord(word_obj) : RawHeadWord(word_obj)[k] = " "

PerFileCount(NoWord(_)) ==
    /\ pc' # "off" => CountedWithin(todos')
    /\ todo_file' # <<>> => CountedWithin(todo_file'[1])
    /\ CompletesFile =>
          LET info == todos'.files[FindFileInfo(todos', filename)]
              content == split_words[filename]
          IN info.completed_words + info.failed_words + counts.skipped
                + Cardinality({k \in DOMAIN content : NoWord(content[k])})
                = info.word_count

C22_PerFileCountAsStated == [][PerFileCount(EmptyHead)]_vars

(***************************************************************************)
(* C22 (amended): the same, where the entries counted last are those whose *)
(* headWord is absent, empty or made of whitespace only.                   *)
(***************************************************************************)
C22_PerFileCount == [][PerFileCount(BlankHead)]_vars

\* a file with a phrase, blank entries, a failed word and downloaded words was
\* completed, and the faults of the behaviour are used up
C22_Witness ==
    /\ pc = "loop"
    /\ hist.call = "done"
    /\ budget = 0
    /\ todo_file # <<>>
    /\ \E k \in DOMAIN todo_file[1].files :
          LET info == todo_file[1].files[k]
          IN /\ info.status = "completed"
             /\ info.failed_words = 1
             /\ info.completed_words = 2
             /\ info.word_count = LongLen
             /\ \E n \in DOMAIN split_words[info.filename] :
                   /\ BlankHead(split_words[info.filename][n])
                   /\ ~EmptyHead(split_words[info.filename][n])

====
